---- MODULE Spec2Model ----
(***************************************************************************)
(* fakegres-fdb: a PostgreSQL wire front end over an ordered transactional *)
(* key/value store.  The model covers the SQL-to-KV engine (pgEngine) and  *)
(* the per-connection session loop (pgServer).  Every KV transaction of    *)
(* the engine is one atomic step; statements that use two transactions     *)
(* (INSERT, SELECT) are two steps, so that sessions interleave between     *)
(* them exactly where the store lets them.                                 *)
(***************************************************************************)
EXTENDS Integers, Sequences, FiniteSets, TLC

(***************************************************************************)
(* Bounds of the model.                                                    *)
(***************************************************************************)
\* Query messages handled by the server, over all sessions.
MaxQueries == 4
\* Row ids the UUID generator can draw from while they are not in the store.
NumRowIds == 2

\* Clients: s0 works alone and sends the wide range of statements; s1 and
\* s2 work side by side and send the few statements that race.
Sessions == {"s0", "s1", "s2"}
Tables == {"t", "u"}
\* A column name no table declares.
MissingColumn == "z"

\* Row ids stand for UUID strings; RowIdPool lists them in string order.
RowIdPool == <<"id1", "id2", "id3", "id4", "id5">>
RowIds == {RowIdPool[i] : i \in 1..NumRowIds}

(***************************************************************************)
(* The ordered key/value store.  A key is the tuple packed under the       *)
(* subspace ("catalog","table") or ("data","table_data"); tuple packing    *)
(* preserves the element-wise lexicographic order of the tuples.           *)
(***************************************************************************)
\* Every string used as a key element, in byte-lexicographic order.
LexOrder == <<"a", "b", "c", "id1", "id2", "id3", "id4", "id5", "r", "t", "u", "z">>
Ord(s) == CHOOSE i \in 1..Len(LexOrder) : LexOrder[i] = s

RECURSIVE TupleLess(_, _)
TupleLess(k1, k2) ==
    IF k1 = <<>> THEN k2 # <<>>
    ELSE IF k2 = <<>> THEN FALSE
    ELSE IF Head(k1) = Head(k2) THEN TupleLess(Tail(k1), Tail(k2))
    ELSE Ord(Head(k1)) < Ord(Head(k2))

RECURSIVE SortKeys(_)
SortKeys(S) ==
    IF S = {} THEN <<>>
    ELSE LET m == CHOOSE k \in S : \A o \in S \ {k} : TupleLess(k, o)
         IN  <<m>> \o SortKeys(S \ {m})

HasPrefix(k, p) == Len(k) >= Len(p) /\ SubSeq(k, 1, Len(p)) = p

\* fdb.PrefixRange(prefix): every key that starts with the packed prefix.
PrefixRange(store, p) == SortKeys({k \in DOMAIN store : HasPrefix(k, p)})

\* The range of a subspace: the keys strictly below the prefix; the key
\* equal to the prefix itself is not part of it.
SubspaceRange(store, p) ==
    SortKeys({k \in DOMAIN store : HasPrefix(k, p) /\ Len(k) > Len(p)})

EmptyStore == [k \in {} |-> ""]
Set(store, k, v) == [x \in (DOMAIN store) \cup {k} |-> IF x = k THEN v ELSE store[x]]
Clear(store, k) == [x \in (DOMAIN store) \ {k} |-> store[x]]

RECURSIVE ClearKeys(_, _)
ClearKeys(store, keys) ==
    IF keys = <<>> THEN store
    ELSE ClearKeys(Clear(store, Head(keys)), Tail(keys))

(***************************************************************************)
(* Catalog: CREATE TABLE and the table definition.                         *)
(***************************************************************************)
\* cd.TypeName.Names joined with "."
RECURSIVE columnType(_)
columnType(names) ==
    IF names = <<>> THEN ""
    ELSE IF Len(names) = 1 THEN names[1]
    ELSE names[1] \o "." \o columnType(Tail(names))

RECURSIVE SetColumns(_, _, _)
SetColumns(cat, name, elts) ==
    IF elts = <<>> THEN cat
    ELSE SetColumns(Set(cat, <<name, Head(elts).Colname>>, columnType(Head(elts).Names)),
                    name, Tail(elts))

\* executeCreate that writes the column definitions without the marker.
executeCreate_ColumnsOnly(cat, stmt) ==
    IF <<stmt.tbl>> \in DOMAIN cat
    THEN cat
    ELSE SetColumns(cat, stmt.tbl, stmt.elts)

\* executeCreate that adds the columns an existing table does not have.
executeCreate_AddMissingColumns(cat, stmt) ==
    IF <<stmt.tbl>> \in DOMAIN cat
    THEN SetColumns(cat, stmt.tbl,
                    SelectSeq(stmt.elts, LAMBDA e : <<stmt.tbl, e.Colname>> \notin DOMAIN cat))
    ELSE SetColumns(Set(cat, <<stmt.tbl>>, ""), stmt.tbl, stmt.elts)

\* executeCreate without the check of the existence marker.
executeCreate_NoExistsCheck(cat, stmt) ==
    SetColumns(Set(cat, <<stmt.tbl>>, ""), stmt.tbl, stmt.elts)

\* The transaction of executeCreate: the catalog after it.
executeCreate(cat, stmt) ==
    IF <<stmt.tbl>> \in DOMAIN cat
    THEN cat
    ELSE SetColumns(Set(cat, <<stmt.tbl>>, ""), stmt.tbl, stmt.elts)

getTableDefinition(cat, name) ==
    LET keys == SubspaceRange(cat, <<name>>)
    IN  [Name |-> name,
         ColumnNames |-> [i \in 1..Len(keys) |-> keys[i][2]],
         ColumnTypes |-> [i \in 1..Len(keys) |-> cat[keys[i]]]]

NoTable == [Name |-> "", ColumnNames |-> <<>>, ColumnTypes |-> <<>>]

(***************************************************************************)
(* INSERT: the write transaction.                                          *)
(***************************************************************************)
\* The bytes stored for a constant: a string as it is, an integer as its
\* JSON text.
ValueBytes(c) == IF c.kind = "str" THEN c.s ELSE ToString(c.i)

\* InsertItems that leaves out the column-layout cell of a string value.
RECURSIVE InsertItems_SkipColumnLayout(_, _, _, _, _, _)
InsertItems_SkipColumnLayout(dat, tblName, names, items, columnIndex, id) ==
    IF items = <<>> THEN [data |-> dat, status |-> "ok"]
    ELSE LET c == Head(items) IN
         IF c.kind \notin {"str", "int"} THEN [data |-> dat, status |-> "error"]
         ELSE IF columnIndex > Len(names) THEN [data |-> dat, status |-> "panic"]
         ELSE LET col == names[columnIndex]
                  d1 == IF c.kind = "str" THEN dat
                        ELSE Set(dat, <<tblName, "c", col, id>>, ValueBytes(c))
                  d2 == Set(d1, <<tblName, "r", id, col>>, ValueBytes(c))
                  next == IF columnIndex < Len(names) THEN columnIndex + 1
                          ELSE columnIndex
              IN  InsertItems_SkipColumnLayout(d2, tblName, names, Tail(items), next, id)

\* InsertItems that advances columnIndex past the last column.
RECURSIVE InsertItems_NoClamp(_, _, _, _, _, _)
InsertItems_NoClamp(dat, tblName, names, items, columnIndex, id) ==
    IF items = <<>> THEN [data |-> dat, status |-> "ok"]
    ELSE LET c == Head(items) IN
         IF c.kind \notin {"str", "int"} THEN [data |-> dat, status |-> "error"]
         ELSE IF columnIndex > Len(names) THEN [data |-> dat, status |-> "panic"]
         ELSE LET col == names[columnIndex]
                  d1 == Set(dat, <<tblName, "c", col, id>>, ValueBytes(c))
                  d2 == Set(d1, <<tblName, "r", id, col>>, ValueBytes(c))
              IN  InsertItems_NoClamp(d2, tblName, names, Tail(items), columnIndex + 1, id)

\* One tuple of a VALUES list.  columnIndex counts from 1; the result is
\* the transaction's write set status: "ok", "error" (unknown value type)
\* or "panic" (index out of range on tbl.ColumnNames).
RECURSIVE InsertItems(_, _, _, _, _, _)
InsertItems(dat, tblName, names, items, columnIndex, id) ==
    IF items = <<>> THEN [data |-> dat, status |-> "ok"]
    ELSE LET c == Head(items) IN
         IF c.kind \notin {"str", "int"} THEN [data |-> dat, status |-> "error"]
         ELSE IF columnIndex > Len(names) THEN [data |-> dat, status |-> "panic"]
         ELSE LET col == names[columnIndex]
                  d1 == Set(dat, <<tblName, "c", col, id>>, ValueBytes(c))
                  d2 == Set(d1, <<tblName, "r", id, col>>, ValueBytes(c))
                  maxColumnIndex == Len(names)
                  next == IF columnIndex < maxColumnIndex THEN columnIndex + 1
                          ELSE columnIndex
              IN  InsertItems(d2, tblName, names, Tail(items), next, id)

RECURSIVE InsertLists(_, _, _, _, _)
InsertLists(dat, tblName, names, lists, ids) ==
    IF lists = <<>> THEN [data |-> dat, status |-> "ok"]
    ELSE LET r == InsertItems(dat, tblName, names, Head(lists), 1, Head(ids)) IN
         IF r.status # "ok" THEN r
         ELSE InsertLists(r.data, tblName, names, Tail(lists), Tail(ids))

\* executeInsert that writes the first tuple of the VALUES list only.
executeInsert_FirstTupleOnly(dat, cat, tblName, tbl, lists, ids) ==
    IF <<tblName>> \notin DOMAIN cat THEN [data |-> dat, status |-> "ok"]
    ELSE LET r == InsertLists(dat, tblName, tbl.ColumnNames, SubSeq(lists, 1, 1), ids) IN
         IF r.status = "ok" THEN r ELSE [data |-> dat, status |-> r.status]

\* The write transaction of executeInsert.  tbl is the definition read by
\* the earlier getTableDefinition; ids are the generated row ids.  A
\* transaction that returns an error or panics commits nothing.
executeInsert(dat, cat, tblName, tbl, lists, ids) ==
    IF <<tblName>> \notin DOMAIN cat THEN [data |-> dat, status |-> "ok"]
    ELSE LET r == InsertLists(dat, tblName, tbl.ColumnNames, lists, ids) IN
         IF r.status = "ok" THEN r ELSE [data |-> dat, status |-> r.status]

(***************************************************************************)
(* DELETE.                                                                 *)
(***************************************************************************)
\* executeDelete that clears the column-layout cells of the table only.
executeDelete_ColumnLayoutOnly(dat, cat, tblName) ==
    IF <<tblName>> \notin DOMAIN cat THEN dat
    ELSE ClearKeys(dat, PrefixRange(dat, <<tblName, "c">>))

\* executeDelete without the check of the existence marker.
executeDelete_NoExistsCheck(dat, cat, tblName) ==
    ClearKeys(dat, SubspaceRange(dat, <<>>))

\* The transaction of executeDelete: scan the table_data subspace and
\* clear every key the scan returns.
executeDelete(dat, cat, tblName) ==
    IF <<tblName>> \notin DOMAIN cat THEN dat
    ELSE ClearKeys(dat, SubspaceRange(dat, <<>>))

(***************************************************************************)
(* SELECT: target resolution and the two scan paths.                       *)
(***************************************************************************)
\* The type of the last column of tbl named fieldName, "" when none is.
RECURSIVE fieldTypeOf(_, _, _, _)
fieldTypeOf(tbl, fieldName, i, fieldType) ==
    IF i > Len(tbl.ColumnNames) THEN fieldType
    ELSE fieldTypeOf(tbl, fieldName, i + 1,
                     IF tbl.ColumnNames[i] = fieldName THEN tbl.ColumnTypes[i]
                     ELSE fieldType)

\* The loop over stmt.TargetList without the check for an unknown field.
RECURSIVE ResolveTargets_SkipUnknown(_, _, _)
ResolveTargets_SkipUnknown(tbl, targets, results) ==
    IF targets = <<>> THEN results
    ELSE LET fieldName == Head(targets)
             fieldType == fieldTypeOf(tbl, fieldName, 1, "")
         IN  ResolveTargets_SkipUnknown(tbl, Tail(targets),
                    [results EXCEPT !.fieldNames = Append(@, fieldName),
                                    !.fieldTypes = Append(@, fieldType)])

\* The loop over stmt.TargetList of executeSelect / executeSelectColumnar.
RECURSIVE ResolveTargets(_, _, _)
ResolveTargets(tbl, targets, results) ==
    IF targets = <<>> THEN results
    ELSE LET fieldName == Head(targets)
             fieldType == fieldTypeOf(tbl, fieldName, 1, "")
         IN  IF fieldType = ""
             THEN [results EXCEPT !.err = "unknown field"]
             ELSE ResolveTargets(tbl, Tail(targets),
                    [results EXCEPT !.fieldNames = Append(@, fieldName),
                                    !.fieldTypes = Append(@, fieldType)])

EmptyResult == [fieldNames |-> <<>>, fieldTypes |-> <<>>, rows |-> <<>>, err |-> ""]

\* "TODO: don't add empty arrays in the first place"
DropEmptyRows(targetRows) == SelectSeq(targetRows, LAMBDA row : Len(row) > 0)

\* The scan loop of executeSelect.  keys are row-layout keys
\* (table, "r", row id, column) in scan order; rowIndex counts from 1.
RECURSIVE RowScan(_, _, _, _, _, _)
RowScan(keys, dat, nFields, targetRows, rowIndex, columnOrder) ==
    IF keys = <<>> THEN [rows |-> targetRows, columnOrder |-> columnOrder]
    ELSE LET k == Head(keys)
             currentColumnName == k[4]
             order == IF Len(columnOrder) < nFields
                      THEN Append(columnOrder, currentColumnName)
                      ELSE columnOrder
             full == Len(targetRows[rowIndex]) = nFields
             ri == IF full THEN rowIndex + 1 ELSE rowIndex
             rows1 == IF full THEN Append(targetRows, <<>>) ELSE targetRows
             rows2 == [rows1 EXCEPT ![ri] = Append(@, dat[k])]
         IN  RowScan(Tail(keys), dat, nFields, rows2, ri, order)

\* The scan transaction of executeSelect on the resolved results.
executeSelect(dat, tbl, results) ==
    LET keys == PrefixRange(dat, <<tbl.Name, "r">>)
        scan == RowScan(keys, dat, Len(results.fieldNames), <<<<>>>>, 1, <<>>)
    IN  [fieldNames |-> scan.columnOrder,
         fieldTypes |-> results.fieldTypes,
         rows |-> DropEmptyRows(Append(scan.rows, <<>>)),
         err |-> ""]

\* One value appended to the row per target equal to the column.
RECURSIVE AppendPerTarget(_, _, _, _)
AppendPerTarget(row, fieldNames, col, value) ==
    IF fieldNames = <<>> THEN row
    ELSE AppendPerTarget(IF Head(fieldNames) = col THEN Append(row, value) ELSE row,
                         Tail(fieldNames), col, value)

\* The scan loop of executeSelectColumnar.  keys are column-layout keys
\* (table, "c", column, row id); rowIndex counts from 1, 0 before the
\* first key.
RECURSIVE ColumnScan(_, _, _, _, _, _, _)
ColumnScan(keys, dat, fieldNames, targetRows, rowIndex, lastColumn, columnOrder) ==
    IF keys = <<>> THEN [rows |-> targetRows, columnOrder |-> columnOrder, panic |-> FALSE]
    ELSE LET k == Head(keys)
             currentColumnName == k[3]
             changed == currentColumnName # lastColumn
             ri == IF changed THEN 1 ELSE rowIndex
             order == IF changed THEN Append(columnOrder, currentColumnName)
                      ELSE columnOrder
             rows1 == IF changed THEN targetRows ELSE Append(targetRows, <<>>)
             hit == \E i \in 1..Len(fieldNames) : fieldNames[i] = currentColumnName
         IN  IF hit /\ (ri < 1 \/ ri > Len(rows1))
             THEN [rows |-> rows1, columnOrder |-> order, panic |-> TRUE]
             ELSE LET rows2 == IF hit
                               THEN [rows1 EXCEPT ![ri] =
                                       AppendPerTarget(@, fieldNames, currentColumnName, dat[k])]
                               ELSE rows1
                  IN  ColumnScan(Tail(keys), dat, fieldNames, rows2, ri + 1,
                                 currentColumnName, order)

\* The scan transaction of executeSelectColumnar on the resolved results.
executeSelectColumnar(dat, tbl, results) ==
    LET keys == PrefixRange(dat, <<tbl.Name, "c">>)
        scan == ColumnScan(keys, dat, results.fieldNames, <<<<>>>>, 0, "", <<>>)
    IN  [fieldNames |-> scan.columnOrder,
         fieldTypes |-> results.fieldTypes,
         rows |-> DropEmptyRows(Append(scan.rows, <<>>)),
         err |-> IF scan.panic THEN "panic" ELSE ""]

(***************************************************************************)
(* The wire: frames written to the connection.                             *)
(***************************************************************************)
dataTypeOIDMap(t) ==
    IF t = "text" THEN 25 ELSE IF t = "pg_catalog.int4" THEN 23 ELSE 0

CommandComplete(tag) == [type |-> "CommandComplete", tag |-> tag]
ReadyForQuery == [type |-> "ReadyForQuery", status |-> "I"]
AuthenticationOk == [type |-> "AuthenticationOk"]
DenySSL == [type |-> "N"]

\* done that ends the response without ReadyForQuery.
done_NoReady(buf, msg) == buf \o <<CommandComplete(msg)>>

\* pgServer.done
done(buf, msg) == buf \o <<CommandComplete(msg), ReadyForQuery>>

\* json.Marshal of a Go string: the quoted string.
JsonMarshal(value) == ToString(value)

\* pgServer.writePgResult: the frames written, or a panic when
\* res.fieldTypes is shorter than res.fieldNames.
writePgResult(r) ==
    IF Len(r.fieldNames) > Len(r.fieldTypes)
    THEN [frames |-> <<>>, panic |-> TRUE]
    ELSE LET rd == [type |-> "RowDescription",
                    fields |-> [i \in 1..Len(r.fieldNames) |->
                                  [name |-> r.fieldNames[i],
                                   oid |-> dataTypeOIDMap(r.fieldTypes[i])]]]
             rows == [i \in 1..Len(r.rows) |->
                        [type |-> "DataRow",
                         values |-> [j \in 1..Len(r.rows[i]) |-> JsonMarshal(r.rows[i][j])]]]
         IN  [frames |-> done(<<rd>> \o rows, "SELECT " \o ToString(Len(r.rows))),
              panic |-> FALSE]

\* strings.ToUpper of the first space-separated token of the query text.
ToUpper(verb) ==
    CASE verb = "create" -> "CREATE"
      [] verb = "insert" -> "INSERT"
      [] verb = "delete" -> "DELETE"
      [] verb = "drop" -> "DROP"
      [] OTHER -> verb

(***************************************************************************)
(* Statements a client can send.                                           *)
(***************************************************************************)
\* The parser's TypeName.Names of the declared type of each column:
\* INT is pg_catalog.int4, TEXT is text.
TypeNames(c) == IF c = "a" THEN <<"pg_catalog", "int4">> ELSE <<"text">>

InjectiveSeqs(S, n) ==
    {f \in [1..n -> S] : \A i, j \in 1..n : i # j => f[i] # f[j]}

\* TableElts of a CREATE, in declaration order.
ColumnList(names) == [i \in 1..Len(names) |-> [Colname |-> names[i], Names |-> TypeNames(names[i])]]

CreateStmt(t, names) ==
    [kind |-> "create", verb |-> "create", tbl |-> t, elts |-> ColumnList(names)]

CreateStmts(s) ==
    IF s = "s0"
    THEN {CreateStmt("t", <<"b", "a">>), CreateStmt("t", <<"a">>), CreateStmt("t", <<>>),
          CreateStmt("u", <<"a">>)}
    ELSE {CreateStmt("t", <<"b", "a">>), CreateStmt("t", <<"a">>), CreateStmt("t", <<"b">>)}

\* The i-th constant of the j-th tuple: integers at odd positions,
\* strings at even ones, all distinct within a statement.
Const(j, i) ==
    IF i % 2 = 1 THEN [kind |-> "int", i |-> 10 * j + i]
    ELSE [kind |-> "str", s |-> "v" \o ToString(10 * j + i)]

\* A constant the engine does not handle (a float, a NULL).
Unsupported == [kind |-> "float"]

\* n tuples of k values each; with p > 0 the p-th value of the last tuple
\* is an unsupported constant.
ValuesList(n, k, p) ==
    [j \in 1..n |-> [i \in 1..k |-> IF j = n /\ i = p THEN Unsupported ELSE Const(j, i)]]

InsertStmt(t, lists) == [kind |-> "insert", verb |-> "insert", tbl |-> t, lists |-> lists]

InsertStmts(s) ==
    IF s = "s0"
    THEN {InsertStmt("t", ValuesList(2, 2, 0)), InsertStmt("t", ValuesList(1, 1, 0)),
          InsertStmt("t", ValuesList(1, 3, 0)), InsertStmt("t", ValuesList(2, 2, 2)),
          InsertStmt("u", ValuesList(1, 1, 0))}
    ELSE {InsertStmt("t", ValuesList(2, 2, 0))}

DeleteStmt(t) == [kind |-> "delete", verb |-> "delete", tbl |-> t]

DeleteStmts(s) == IF s = "s0" THEN {DeleteStmt(t) : t \in Tables} ELSE {DeleteStmt("t")}

\* from is stmt.FromClause: one relation, or none (select 1); targets are
\* the bare column references of stmt.TargetList.
SelectStmt(from, targets) ==
    [kind |-> "select", verb |-> "select", from |-> from, targets |-> targets]

SelectStmts(s) ==
    IF s = "s0"
    THEN {SelectStmt(<<"t">>, l) : l \in {<<"a", "b">>, <<"b", "a">>, <<"a">>, <<"b">>, <<>>,
                                          <<MissingColumn>>, <<"a", MissingColumn>>}}
         \cup {SelectStmt(<<"u">>, <<"a">>), SelectStmt(<<>>, <<>>)}
    ELSE {SelectStmt(<<"t">>, <<"a", "b">>), SelectStmt(<<"t">>, <<"a">>)}

\* A statement that is none of the four (DROP TABLE ...).
OtherStmt == [kind |-> "other", verb |-> "drop"]
NoStmt == [kind |-> "none"]

\* Query texts of two top-level statements, as the parser returns them.
MultiStmts(s) ==
    IF s = "s0"
    THEN {<<DeleteStmt("t"), SelectStmt(<<"t">>, <<"a", "b">>)>>,
          <<InsertStmt("t", ValuesList(1, 1, 0)), InsertStmt("t", ValuesList(1, 1, 0))>>,
          <<SelectStmt(<<>>, <<>>), SelectStmt(<<>>, <<>>)>>}
    ELSE {<<CreateStmt("t", <<"a">>), DeleteStmt("t")>>}

\* The parse results of the Query texts a client sends: one statement,
\* none (an empty text), or two.
Queries(s) ==
    {<<stmt>> : stmt \in CreateStmts(s) \cup InsertStmts(s) \cup DeleteStmts(s)
                            \cup SelectStmts(s) \cup {OtherStmt}}
    \cup {<<>>} \cup MultiStmts(s)

\* The check of len(stmts.GetStmts()) that never rejects.
TooManyStmts_Never(stmts) == FALSE

\* len(stmts.GetStmts()) > 1
TooManyStmts(stmts) == Len(stmts) > 1

(***************************************************************************)
(* State.                                                                  *)
(***************************************************************************)
VARIABLES
    catalog,    \* the catalog/table subspace: key tuple -> value
    data,       \* the data/table_data subspace: key tuple -> value
    columnar,   \* cfg.columnar
    crashed,    \* the process died of an unrecovered panic
    nq,         \* Query messages handled so far
    stmtCount,  \* top-level statements of the Query message received last
    st,         \* per session: its place in handle(); "Absent" for a
                \* client that never connects
    q,          \* per session: the statement handleMessage is executing
    tbl,        \* per session: the tableDefinition read for q
    res,        \* per session: the pgResult under construction for q
    last,       \* log: the message handled last, and what came of it
    follows,    \* history: the session whose SELECT began right after the
                \* INSERT in last, "" when there is none
    delRows,    \* history: per table, the rows its DELETE removed, -1 once
                \* an INSERT into the table followed
    declared,   \* history: per table, the TableElts of its first CREATE
    authOk,     \* history: the sessions whose AuthenticationOk was written
    batches     \* history: the committed INSERTs whose cells no DELETE has
                \* cleared: session, statement, column list used, row ids,
                \* and the sessions that were between the two transactions
                \* of a SELECT when the INSERT committed

vars == <<catalog, data, columnar, crashed, nq, stmtCount, st, q, tbl, res,
          last, follows, delRows, declared, authOk, batches>>

Range(f) == {f[i] : i \in DOMAIN f}
RowKeys(dat, t) == {k \in DOMAIN dat : k[1] = t /\ k[2] = "r"}
ColKeys(dat, t) == {k \in DOMAIN dat : k[1] = t /\ k[2] = "c"}
FreshIds(dat) == RowIds \ {k[3] : k \in {x \in DOMAIN dat : x[2] = "r"}}

NoPrev == [n |-> 0, ok |-> FALSE, full |-> FALSE]

\* An entry of the log: session sess handled stmt; the executor used the
\* table definition def and returned result and err; the session wrote
\* sent and went to state to.  exists, cells and deleted describe the
\* statement's table when its last transaction ran: the marker was there,
\* the number of its row-layout cells, and delRows.  prev describes the
\* INSERT a SELECT immediately followed: its number of tuples, whether it
\* succeeded on an existing table without cells, and whether each tuple
\* had one value per column.  denied counts the SSLRequests the session
\* was answered in a row up to this startup message, 2 standing for two
\* or more.  seen is the set of keys the scan of a SELECT returned.
\* rival is the other session whose CREATE of the same table was handled
\* just before this CREATE, "" when there is none.
Entry(s, stmt, def, result, e, frames, to) ==
    [sess |-> s, stmt |-> stmt, def |-> def, result |-> result, err |-> e,
     sent |-> frames, to |-> to,
     exists |-> FALSE, cells |-> 0, deleted |-> -1, prev |-> NoPrev,
     denied |-> 0, seen |-> {}, rival |-> ""]

NoEntry == Entry("", NoStmt, NoTable, EmptyResult, "", <<>>, "None")

\* The store of a database no statement was ever run on, or one that
\* main has just cleared.
ClearedStore ==
    [catalog |-> EmptyStore, data |-> EmptyStore,
     declared |-> [t \in Tables |-> {}], batches |-> {}]

\* The store an earlier run of the server left behind after it handled
\* the CREATE and then the INSERT, drawing the row ids ids.
EarlierRun(create, insert, ids) ==
    LET cat == executeCreate(EmptyStore, create)
        def == getTableDefinition(cat, insert.tbl)
        r == executeInsert(EmptyStore, cat, insert.tbl, def, insert.lists, ids)
    IN  [catalog |-> cat, data |-> r.data,
         declared |-> [t \in Tables |-> IF t = create.tbl THEN {create.elts} ELSE {}],
         batches |-> {[sess |-> "", stmt |-> insert, names |-> def.ColumnNames,
                       ids |-> ids, during |-> {}]}]

\* The stores the server can find when it starts without clearing them.
FoundStores ==
    {ClearedStore,
     EarlierRun(CreateStmt("t", <<"a">>), InsertStmt("t", ValuesList(1, 1, 0)),
                <<RowIdPool[1]>>)}

\* main: with cfg.reset every key is cleared, without it the server runs
\* on the store as it finds it.
Init ==
    /\ \E reset \in BOOLEAN : \E found \in FoundStores :
          LET start == IF reset THEN ClearedStore ELSE found IN
          /\ catalog = start.catalog
          /\ data = start.data
          /\ declared = start.declared
          /\ batches = start.batches
    /\ columnar \in BOOLEAN
    /\ crashed = FALSE
    /\ nq = 0
    /\ stmtCount = 0
    /\ st \in {[s \in Sessions |-> IF s = "s0" THEN "None" ELSE "Absent"],
               [s \in Sessions |-> IF s = "s0" THEN "Absent" ELSE "None"]}
    /\ q = [s \in Sessions |-> NoStmt]
    /\ tbl = [s \in Sessions |-> NoTable]
    /\ res = [s \in Sessions |-> EmptyResult]
    /\ last = NoEntry
    /\ follows = ""
    /\ delRows = [t \in Tables |-> -1]
    /\ authOk = {}

(***************************************************************************)
(* Steps of the server.                                                    *)
(***************************************************************************)
Stores == <<catalog, data>>
History == <<delRows, declared, authOk, batches>>

\* handleMessage returns: its locals are gone.
Return(s) ==
    /\ q' = [q EXCEPT ![s] = NoStmt]
    /\ tbl' = [tbl EXCEPT ![s] = NoTable]
    /\ res' = [res EXCEPT ![s] = EmptyResult]

\* An unrecovered panic in a session's goroutine ends the process, and
\* with it every connection.
Panic(s, entry) ==
    /\ crashed' = TRUE
    /\ st' = [x \in Sessions |-> IF st[x] = "Absent" THEN "Absent" ELSE "Closed"]
    /\ last' = [entry EXCEPT !.result = EmptyResult, !.err = "panic", !.sent = <<>>,
                              !.to = "Closed"]
    /\ follows' = ""
    /\ Return(s)

\* handleMessage returns an error: handle() logs it and closes the connection.
Fail(s, stmt, def, e) ==
    /\ st' = [st EXCEPT ![s] = "Closed"]
    /\ last' = Entry(s, stmt, def, EmptyResult, e, <<>>, "Closed")
    /\ follows' = ""
    /\ Return(s)
    /\ UNCHANGED crashed

\* handleMessage returns nil after writing frames: handle() loops.
Reply(s, entry) ==
    /\ st' = [st EXCEPT ![s] = "Idle"]
    /\ last' = entry
    /\ follows' = ""
    /\ Return(s)
    /\ UNCHANGED crashed

\* Accept that hands the connection to the message loop at once.
Accept_SkipStartup(s) ==
    /\ ~crashed
    /\ st[s] = "None"
    /\ st' = [st EXCEPT ![s] = "Idle"]
    /\ UNCHANGED <<Stores, History, columnar, crashed, nq, stmtCount, q, tbl, res, last, follows>>

\* runPgServer: a connection is accepted and its handler started.
Accept(s) ==
    /\ ~crashed
    /\ st[s] = "None"
    /\ st' = [st EXCEPT ![s] = "ConnAccepted"]
    /\ UNCHANGED <<Stores, History, columnar, crashed, nq, stmtCount, q, tbl, res, last, follows>>

StartupMessages == {"StartupMessage", "SSLRequest", "CancelRequest", "ReceiveError"}

\* handleStartupMessage, one received startup message at a time.
handleStartupMessage(s, m) ==
    /\ ~crashed
    /\ st[s] = "ConnAccepted"
    /\ LET msg == [kind |-> m]
           n == IF last.sess = s /\ last.stmt.kind = "SSLRequest" THEN last.denied ELSE 0
       IN
       CASE m = "StartupMessage" ->
                /\ Reply(s, [Entry(s, msg, NoTable, EmptyResult, "",
                                    <<AuthenticationOk, ReadyForQuery>>, "Idle")
                              EXCEPT !.denied = n])
                /\ authOk' = authOk \cup {s}
         [] m = "SSLRequest" ->
                /\ last' = [Entry(s, msg, NoTable, EmptyResult, "", <<DenySSL>>,
                                  "ConnAccepted")
                            EXCEPT !.denied = IF n < 2 THEN n + 1 ELSE 2]
                /\ follows' = ""
                /\ UNCHANGED <<st, q, tbl, res, crashed, authOk>>
         [] OTHER -> /\ Fail(s, msg, NoTable, "startup")
                     /\ UNCHANGED authOk
    /\ UNCHANGED <<Stores, delRows, declared, batches, columnar, nq, stmtCount>>

Idle(s) == ~crashed /\ st[s] = "Idle"

\* A Query message is received and its text parsed into stmts.
Query(s, stmts) ==
    /\ Idle(s)
    /\ nq < MaxQueries
    /\ nq' = nq + 1
    /\ stmtCount' = Len(stmts)

\* The Query passes the checks of handleMessage and its first statement,
\* of the given kind, is executed.
Executes(s, stmts, kind) ==
    /\ Query(s, stmts)
    /\ ~TooManyStmts(stmts)
    /\ stmts # <<>>
    /\ stmts[1].kind = kind

\* pgc.Receive fails: the client went away.
ReceiveError(s) ==
    /\ Idle(s)
    /\ Fail(s, [kind |-> "receive error"], NoTable, "receive")
    /\ UNCHANGED <<Stores, History, columnar, nq, stmtCount>>

\* case *pgproto3.Terminate: return nil
Terminate(s) ==
    /\ Idle(s)
    /\ Reply(s, Entry(s, [kind |-> "terminate"], NoTable, EmptyResult, "", <<>>, "Idle"))
    /\ UNCHANGED <<Stores, History, columnar, nq, stmtCount>>

\* default: a message that is neither Query nor Terminate.
UnknownMessage(s) ==
    /\ Idle(s)
    /\ Fail(s, [kind |-> "unknown message"], NoTable, "unknown message")
    /\ UNCHANGED <<Stores, History, columnar, nq, stmtCount>>

\* A Query the parser rejects (no statements are returned), or one with
\* more than one statement.
RejectedQuery(s, why, stmts) ==
    /\ Query(s, stmts)
    /\ IF why = "parse error" THEN stmts = <<>> ELSE TooManyStmts(stmts)
    /\ Fail(s, [kind |-> why], NoTable, why)
    /\ UNCHANGED <<Stores, History, columnar>>

\* A Query with no statement: stmts.GetStmts()[0] is out of range.
EmptyQuery(s) ==
    /\ Query(s, <<>>)
    /\ ~TooManyStmts(<<>>)
    /\ Panic(s, Entry(s, [kind |-> "empty"], NoTable, EmptyResult, "", <<>>, ""))
    /\ UNCHANGED <<Stores, History, columnar>>

\* A statement pe.execute has no case for.
OtherStatement(s, stmts) ==
    /\ Executes(s, stmts, "other")
    /\ Reply(s, Entry(s, OtherStmt, NoTable, EmptyResult, "",
                      done(<<>>, ToUpper(OtherStmt.verb) \o " ok"), "Idle"))
    /\ UNCHANGED <<Stores, History, columnar>>

Create(s, stmts) ==
    LET stmt == stmts[1] IN
    /\ Executes(s, stmts, "create")
    /\ catalog' = executeCreate(catalog, stmt)
    /\ Reply(s, [Entry(s, stmt, NoTable, EmptyResult, "",
                       done(<<>>, ToUpper(stmt.verb) \o " ok"), "Idle")
                 EXCEPT !.exists = (<<stmt.tbl>> \in DOMAIN catalog),
                        !.rival = IF /\ last.stmt.kind = "create"
                                     /\ last.stmt.tbl = stmt.tbl
                                     /\ last.sess # s
                                  THEN last.sess ELSE ""])
    /\ declared' = [declared EXCEPT ![stmt.tbl] = IF @ = {} THEN {stmt.elts} ELSE @]
    /\ UNCHANGED <<data, delRows, authOk, batches, columnar>>

Delete(s, stmts) ==
    LET stmt == stmts[1] IN
    /\ Executes(s, stmts, "delete")
    /\ data' = executeDelete(data, catalog, stmt.tbl)
    /\ Reply(s, [Entry(s, stmt, NoTable, EmptyResult, "",
                       done(<<>>, ToUpper(stmt.verb) \o " ok"), "Idle")
                 EXCEPT !.exists = (<<stmt.tbl>> \in DOMAIN catalog),
                        !.cells = Cardinality(RowKeys(data, stmt.tbl))])
    /\ delRows' = IF <<stmt.tbl>> \in DOMAIN catalog
                  THEN [delRows EXCEPT ![stmt.tbl] = Cardinality(RowKeys(data, stmt.tbl))]
                  ELSE delRows
    /\ batches' = IF <<stmt.tbl>> \in DOMAIN catalog THEN {} ELSE batches
    /\ UNCHANGED <<catalog, declared, authOk, columnar>>

\* executeInsert up to its write transaction: the table definition is read.
InsertBegin(s, stmts) ==
    LET stmt == stmts[1] IN
    /\ Executes(s, stmts, "insert")
    /\ q' = [q EXCEPT ![s] = stmt]
    /\ tbl' = [tbl EXCEPT ![s] = getTableDefinition(catalog, stmt.tbl)]
    /\ st' = [st EXCEPT ![s] = "InsertTx"]
    /\ follows' = ""
    /\ UNCHANGED <<Stores, History, columnar, crashed, res, last>>

\* The write transaction of executeInsert and the rest of handleMessage:
\* the error pe.execute returns is dropped and the tag is written.
InsertCommit(s, ids) ==
    /\ ~crashed
    /\ st[s] = "InsertTx"
    /\ LET stmt == q[s]
           r == executeInsert(data, catalog, stmt.tbl, tbl[s], stmt.lists, ids)
           entry == [Entry(s, stmt, tbl[s], EmptyResult,
                           IF r.status = "error" THEN "unknown value type" ELSE "",
                           done(<<>>, ToUpper(stmt.verb) \o " ok"), "Idle")
                     EXCEPT !.exists = (<<stmt.tbl>> \in DOMAIN catalog),
                            !.cells = Cardinality(RowKeys(data, stmt.tbl))]
       IN  IF r.status = "panic"
           THEN /\ Panic(s, entry)
                /\ UNCHANGED <<data, delRows, batches>>
           ELSE /\ data' = r.data
                /\ Reply(s, entry)
                /\ delRows' = [delRows EXCEPT ![stmt.tbl] = -1]
                /\ batches' = IF entry.exists /\ r.status = "ok"
                              THEN batches \cup
                                   {[sess |-> s, stmt |-> stmt, names |-> tbl[s].ColumnNames,
                                     ids |-> ids,
                                     during |-> {x \in Sessions : st[x] = "SelectTx"}]}
                              ELSE batches
    /\ UNCHANGED <<catalog, declared, authOk, columnar, nq, stmtCount>>

\* executeSelect / executeSelectColumnar up to the scan transaction.
SelectBegin(s, stmts) ==
    LET stmt == stmts[1] IN
    /\ Executes(s, stmts, "select")
    /\ IF stmt.from = <<>>
       THEN Panic(s, Entry(s, stmt, NoTable, EmptyResult, "", <<>>, ""))
       ELSE LET def == getTableDefinition(catalog, stmt.from[1])
                results == ResolveTargets(def, stmt.targets, EmptyResult)
            IN  IF results.err # ""
                THEN Fail(s, stmt, def, results.err)
                ELSE /\ q' = [q EXCEPT ![s] = stmt]
                     /\ tbl' = [tbl EXCEPT ![s] = def]
                     /\ res' = [res EXCEPT ![s] = results]
                     /\ st' = [st EXCEPT ![s] = "SelectTx"]
                     /\ follows' = IF /\ last.stmt.kind = "insert"
                                      /\ last.stmt.tbl = stmt.from[1]
                                      /\ \A x \in Sessions : st[x] \notin {"InsertTx", "SelectTx"}
                                   THEN s ELSE ""
                     /\ UNCHANGED <<crashed, last>>
    /\ UNCHANGED <<Stores, History, columnar>>

\* The scan transaction, then writePgResult.
SelectScan(s) ==
    /\ ~crashed
    /\ st[s] = "SelectTx"
    /\ LET r == IF columnar THEN executeSelectColumnar(data, tbl[s], res[s])
                ELSE executeSelect(data, tbl[s], res[s])
           w == writePgResult(r)
           t == q[s].from[1]
           entry == [Entry(s, q[s], tbl[s], r, "", w.frames, "Idle")
                     EXCEPT !.exists = (<<t>> \in DOMAIN catalog),
                            !.cells = Cardinality(RowKeys(data, t)),
                            !.deleted = delRows[t],
                            !.seen = Range(PrefixRange(data,
                                        <<tbl[s].Name, IF columnar THEN "c" ELSE "r">>)),
                            !.prev = IF follows = s
                                     THEN [n |-> Len(last.stmt.lists),
                                           ok |-> /\ last.exists /\ last.err = ""
                                                  /\ last.cells = 0,
                                           full |-> \A j \in 1..Len(last.stmt.lists) :
                                                       Len(last.stmt.lists[j])
                                                         = Len(tbl[s].ColumnNames)]
                                     ELSE NoPrev]
       IN  IF r.err = "panic" \/ w.panic
           THEN Panic(s, entry)
           ELSE Reply(s, entry)
    /\ UNCHANGED <<Stores, History, columnar, nq, stmtCount>>

Next ==
    \/ \E s \in Sessions : Accept(s)
    \/ \E s \in Sessions, m \in StartupMessages : handleStartupMessage(s, m)
    \/ \E s \in Sessions : ReceiveError(s)
    \/ \E s \in Sessions : Terminate(s)
    \/ \E s \in Sessions : UnknownMessage(s)
    \/ \E s \in Sessions : RejectedQuery(s, "parse error", <<>>)
    \/ \E s \in Sessions : \E stmts \in Queries(s) : RejectedQuery(s, "only one request", stmts)
    \/ \E s \in Sessions : EmptyQuery(s)
    \/ \E s \in Sessions : \E stmts \in Queries(s) : OtherStatement(s, stmts)
    \/ \E s \in Sessions : \E stmts \in Queries(s) : Create(s, stmts)
    \/ \E s \in Sessions : \E stmts \in Queries(s) : Delete(s, stmts)
    \/ \E s \in Sessions : \E stmts \in Queries(s) : InsertBegin(s, stmts)
    \/ \E s \in Sessions :
          \E ids \in InjectiveSeqs(FreshIds(data),
                                   IF st[s] = "InsertTx" THEN Len(q[s].lists) ELSE 0) :
             InsertCommit(s, ids)
    \/ \E s \in Sessions : \E stmts \in Queries(s) : SelectBegin(s, stmts)
    \/ \E s \in Sessions : SelectScan(s)

Spec == Init /\ [][Next]_vars

(***************************************************************************)
(* Properties.                                                             *)
(***************************************************************************)
\* The error kinds of the design, by the message the code wraps.
ErrorKind(e) ==
    CASE e = "unknown field" -> "ColumnUnknown"
      [] e = "unknown value type" -> "UnsupportedValue"
      [] e \in {"parse error", "only one request"} -> "ParseError"
      [] e \in {"unknown message", "startup"} -> "ProtocolError"
      [] e = "receive" -> "IOError"
      [] OTHER -> e

\* An error returned by the executor (pgEngine).
ExecutorError(e) == e \in {"unknown field", "unknown value type"}

FrameTypes(frames) == {frames[i].type : i \in DOMAIN frames}
Tags(frames) == {frames[i].tag : i \in {j \in DOMAIN frames : frames[j].type = "CommandComplete"}}
TableOf(stmt) == IF stmt.kind = "select" THEN stmt.from[1] ELSE stmt.tbl
NumColumns(t) == Len(getTableDefinition(catalog, t).ColumnNames)

\* C1: in every reachable state of the store, a row-layout cell
\* (t, "r", id, col) with value v exists if and only if the column-layout
\* cell (t, "c", col, id) exists with the same value v.
DualLayout ==
    /\ \A k \in DOMAIN data :
          k[2] = "r" => /\ <<k[1], "c", k[4], k[3]>> \in DOMAIN data
                        /\ data[<<k[1], "c", k[4], k[3]>>] = data[k]
    /\ \A k \in DOMAIN data :
          k[2] = "c" => /\ <<k[1], "r", k[4], k[3]>> \in DOMAIN data
                        /\ data[<<k[1], "r", k[4], k[3]>>] = data[k]

\* An INSERT of string and integer values has just committed two rows.
DualLayoutWitness ==
    /\ last.stmt.kind = "insert"
    /\ last.err = ""
    /\ Cardinality(RowKeys(data, "t")) >= 4
    /\ \E k \in DOMAIN data : data[k] = "v12"

\* C2 (as claimed): in row-layout mode, an INSERT of N full tuples into
\* an existing table without cells, followed at once by a SELECT of a
\* non-empty list of the table's columns, returns N rows and the tag
\* SELECT N.
SelectAfterInsertCountsTuples ==
    ( /\ ~columnar
      /\ last.stmt.kind = "select"
      /\ last.err = ""
      /\ last.prev.ok
      /\ last.prev.full
      /\ Len(last.stmt.targets) >= 1 )
    => /\ Len(last.result.rows) = last.prev.n
       /\ Tags(last.sent) = {"SELECT " \o ToString(last.prev.n)}

\* C3 (as claimed): a DELETE FROM t leaves every cell of every other
\* table in place with its value.
DeleteKeepsOtherTables ==
    [][ (last'.stmt.kind = "delete" /\ nq' = nq + 1)
        => \A k \in DOMAIN data :
              k[1] # last'.stmt.tbl => (k \in DOMAIN data' /\ data'[k] = data[k]) ]_vars

\* C4: a SELECT on t whose scan runs after a DELETE FROM t on the
\* existing table committed, with no INSERT into t in between, returns
\* no row and the tag SELECT 0, in either scan mode.
SelectAfterDeleteIsEmpty ==
    (last.stmt.kind = "select" /\ last.deleted >= 0 /\ last.stmt.from # <<>>)
    => /\ last.err = ""
       /\ last.to = "Idle"
       /\ last.result.rows = <<>>
       /\ "DataRow" \notin FrameTypes(last.sent)
       /\ Tags(last.sent) = {"SELECT 0"}

\* In column-layout mode a SELECT of one of the two columns has answered
\* SELECT 0 after a DELETE removed the two rows of the table.
SelectAfterDeleteWitness ==
    /\ columnar
    /\ last.stmt.kind = "select"
    /\ last.stmt.targets = <<"b">>
    /\ last.def.ColumnNames = <<"a", "b">>
    /\ last.deleted >= 4
    /\ Tags(last.sent) = {"SELECT 0"}

\* The type token the engine stores for the declared type of a column.
TypeToken(c) == IF c = "a" THEN "pg_catalog.int4" ELSE "text"

\* C5: for every table, whatever statements followed its first CREATE,
\* the table definition names exactly the columns that CREATE declared,
\* each once and with its type token.
TableDefinitionImmutable ==
    \A t \in Tables : \A elts \in declared[t] :
        LET def == getTableDefinition(catalog, t) IN
        /\ Len(def.ColumnNames) = Len(elts)
        /\ Len(def.ColumnTypes) = Len(elts)
        /\ {<<def.ColumnNames[i], def.ColumnTypes[i]>> : i \in 1..Len(def.ColumnNames)}
             = {<<elts[i].Colname, TypeToken(elts[i].Colname)>> : i \in 1..Len(elts)}

\* A CREATE of an existing table with another column list has run.
TableDefinitionImmutableWitness ==
    /\ last.stmt.kind = "create"
    /\ last.exists
    /\ declared[last.stmt.tbl] # {}
    /\ last.stmt.elts \notin declared[last.stmt.tbl]
    /\ \E i \in DOMAIN last.stmt.elts :
          \A elts \in declared[last.stmt.tbl] :
             last.stmt.elts[i].Colname \notin {elts[j].Colname : j \in DOMAIN elts}

\* C6 (as claimed): after a successful INSERT of N tuples into an existing
\* table of C columns that had no cells, the table has N*C row-layout keys
\* and N*C column-layout keys, whatever the length of the tuples.
InsertWritesEveryColumn ==
    ( /\ last.stmt.kind = "insert"
      /\ last.err = ""
      /\ last.exists
      /\ last.cells = 0 )
    => LET t == last.stmt.tbl
           n == Len(last.stmt.lists)
       IN  /\ Cardinality(RowKeys(data, t)) = n * NumColumns(t)
           /\ Cardinality(ColKeys(data, t)) = n * NumColumns(t)

\* C7 (as claimed): when the executor returns an error, for SELECT and
\* for CREATE, INSERT and DELETE alike, no CommandComplete and no
\* ReadyForQuery is sent and the session is closed.
ExecutorErrorClosesSession ==
    ExecutorError(last.err)
    => /\ last.to = "Closed"
       /\ st[last.sess] = "Closed"
       /\ FrameTypes(last.sent) \cap {"CommandComplete", "ReadyForQuery"} = {}

\* C8 (as claimed): a SELECT from a relation whose catalog scan yields no
\* column entry fails with TableUnknown for every target list, writes no
\* frame and closes the session.
SelectUnknownTableFails ==
    ( /\ last.stmt.kind = "select"
      /\ last.stmt.from # <<>>
      /\ last.def.Name = last.stmt.from[1]
      /\ last.def.ColumnNames = <<>> )
    => /\ ErrorKind(last.err) = "TableUnknown"
       /\ last.sent = <<>>
       /\ last.to = "Closed"

\* C9: a SELECT on an existing table with a target that is not a column
\* of the table fails with ColumnUnknown in both scan modes: the session
\* closes without a frame written, and no scan transaction is ever
\* started for such a target list.
SelectUnknownColumnFails ==
    /\ ( /\ last.stmt.kind = "select"
         /\ last.stmt.from # <<>>
         /\ <<TableOf(last.stmt)>> \in DOMAIN catalog
         /\ Range(last.stmt.targets) \ Range(getTableDefinition(catalog, TableOf(last.stmt)).ColumnNames) # {} )
       => /\ ErrorKind(last.err) = "ColumnUnknown"
          /\ last.sent = <<>>
          /\ last.to = "Closed"
          /\ st[last.sess] = "Closed"
    /\ \A s \in Sessions :
          st[s] = "SelectTx" => Range(q[s].targets) \subseteq Range(tbl[s].ColumnNames)

\* A SELECT naming a declared and an undeclared column failed on a table
\* that has rows.
SelectUnknownColumnWitness ==
    /\ last.stmt.kind = "select"
    /\ last.stmt.from = <<"t">>
    /\ last.stmt.targets = <<"a", MissingColumn>>
    /\ last.err = "unknown field"
    /\ last.def.ColumnNames = <<"a", "b">>
    /\ RowKeys(data, "t") # {}

\* C10 (as claimed): a session that receives Terminate while Idle moves
\* to Closed.
TerminateClosesSession ==
    last.stmt.kind = "terminate"
    => /\ last.to = "Closed"
       /\ st[last.sess] = "Closed"

\* The kinds of the log entries that stand for a Query message.
QueryKinds ==
    {"create", "insert", "delete", "select", "other", "empty", "parse error",
     "only one request"}

\* C11: on a new connection every SSLRequest is answered with the byte N
\* and leaves the session in ConnAccepted; the StartupMessage is answered
\* with AuthenticationOk then ReadyForQuery and moves the session to Idle;
\* a session reads messages, holds a statement, has a Query logged or a
\* CommandComplete written only after its AuthenticationOk was written.
StartupOrdering ==
    /\ last.stmt.kind = "SSLRequest"
          => /\ last.sent = <<DenySSL>>
             /\ last.to = "ConnAccepted"
             /\ st[last.sess] = "ConnAccepted"
             /\ last.sess \notin authOk
    /\ last.stmt.kind = "StartupMessage"
          => /\ last.sent = <<AuthenticationOk, ReadyForQuery>>
             /\ last.to = "Idle"
             /\ last.sess \in authOk
    /\ \A s \in Sessions :
          (st[s] \in {"Idle", "InsertTx", "SelectTx"} \/ q[s] # NoStmt) => s \in authOk
    /\ (last.stmt.kind \in QueryKinds \/ "CommandComplete" \in FrameTypes(last.sent))
          => last.sess \in authOk

\* A StartupMessage has been answered after two SSLRequests or more were
\* each answered with N.
StartupOrderingWitness ==
    /\ last.stmt.kind = "StartupMessage"
    /\ last.denied = 2
    /\ st[last.sess] = "Idle"

\* C12: every Query that leaves the connection open is answered by
\* frames that end with exactly one CommandComplete followed by exactly
\* one ReadyForQuery of status I, and the session is Idle after it; a
\* SELECT is answered by one RowDescription, then DataRows only, and the
\* tag SELECT N with N the number of DataRow frames; any other statement
\* by the two closing frames alone.
QueryAnswered ==
    (last.stmt.kind \in QueryKinds /\ last.to # "Closed")
    => LET n == Len(last.sent) IN
       /\ last.to = "Idle"
       /\ n >= 2
       /\ last.sent[n - 1].type = "CommandComplete"
       /\ last.sent[n] = [type |-> "ReadyForQuery", status |-> "I"]
       /\ \A i \in 1..(n - 2) :
             last.sent[i].type \notin {"CommandComplete", "ReadyForQuery"}
       /\ IF last.stmt.kind = "select"
          THEN /\ n >= 3
               /\ last.sent[1].type = "RowDescription"
               /\ \A i \in 2..(n - 2) : last.sent[i].type = "DataRow"
               /\ last.sent[n - 1].tag = "SELECT " \o ToString(n - 3)
          ELSE n = 2

\* A SELECT has been answered with RowDescription, two DataRows or more,
\* CommandComplete and ReadyForQuery.
QueryAnsweredWitness ==
    /\ last.stmt.kind = "select"
    /\ last.to = "Idle"
    /\ Len(last.sent) >= 5
    /\ last.sent[2].type = "DataRow"

\* C13: a Query message of more than one top-level statement is rejected
\* before anything is executed: the catalog and the data are unchanged,
\* no session holds a statement for the executor because of it, nothing is
\* written to the connection and the session goes from Idle to Closed.
MultiStatementRejected ==
    [][ (nq' = nq + 1 /\ stmtCount' > 1)
        => /\ catalog' = catalog
           /\ data' = data
           /\ q' = q /\ tbl' = tbl /\ res' = res
           /\ last'.err = "only one request"
           /\ last'.sent = <<>>
           /\ last'.to = "Closed"
           /\ st[last'.sess] = "Idle"
           /\ st'[last'.sess] = "Closed" ]_vars

\* A Query of two statements has been rejected while the store held rows.
MultiStatementRejectedWitness ==
    /\ stmtCount = 2
    /\ last.err = "only one request"
    /\ st[last.sess] = "Closed"
    /\ RowKeys(data, "t") # {}

\* The cells an INSERT of the log writes: for each tuple one cell per
\* column it assigns a value to, in both layouts.
BatchCells(B) ==
    LET t == B.stmt.tbl
        at == {<<j, i>> \in (DOMAIN B.stmt.lists) \X (DOMAIN B.names) :
                  i <= Len(B.stmt.lists[j])}
    IN  {<<t, "r", B.ids[p[1]], B.names[p[2]]>> : p \in at}
        \cup {<<t, "c", B.names[p[2]], B.ids[p[1]]>> : p \in at}

\* A session has run the scan transaction of its SELECT.
Scanned ==
    \E s \in Sessions : /\ st[s] = "SelectTx" /\ st'[s] # "SelectTx"
                        /\ last'.sess = s /\ last'.stmt.kind = "select"

\* C14: the cells of a committed INSERT are in the store all together,
\* every tuple, every column and both layouts, and the scan of a SELECT,
\* whatever other sessions do around it, returns for each INSERT either
\* all the cells of the scanned table and layout or none (the INSERT is
\* not committed yet); it returns no cell outside the committed INSERTs,
\* and a row-layout result holds as many values as the scan returned.
AtomicInsertVisibility ==
    [][ /\ \A B \in batches' : BatchCells(B) \subseteq DOMAIN data'
        /\ Scanned
           => LET layout == IF columnar THEN "c" ELSE "r"
                  own(B) == {k \in BatchCells(B) :
                               k[1] = last'.def.Name /\ k[2] = layout}
              IN  /\ last'.seen = UNION {own(B) : B \in batches}
                  /\ (~columnar /\ last'.err = "")
                       => Cardinality(UNION {{<<i, j>> : j \in DOMAIN last'.result.rows[i]} :
                                               i \in DOMAIN last'.result.rows})
                            = Cardinality(last'.seen) ]_vars

\* A SELECT that began before an INSERT of two tuples on another session
\* committed has scanned after it and returned all its cells.
AtomicInsertVisibilityWitness ==
    /\ last.stmt.kind = "select"
    /\ last.err = ""
    /\ \E B \in batches :
          /\ last.sess \in B.during
          /\ B.sess # last.sess
          /\ Len(B.ids) = 2
          /\ Cardinality(BatchCells(B) \cap last.seen) = 4

\* The JSON text of a literal: an integer as its decimal digits, a string
\* quoted.
WireText(c) == IF c.kind = "int" THEN ToString(c.i) ELSE ToString(c.s)

\* The integer and string literals of the INSERT statements clients send.
InsertedConstants ==
    {c \in UNION {Range(l) : l \in UNION {Range(stmt.lists) :
                      stmt \in UNION {InsertStmts(s) : s \in Sessions}}} :
        c.kind \in {"int", "str"}}

\* C15 (as claimed): in both scan modes every value of a DataRow is the
\* JSON text of the literal that was inserted: bare decimal digits for an
\* integer literal, a quoted string for a string literal.
ValueKindOnWire ==
    last.stmt.kind = "select"
    => \A i \in DOMAIN last.sent :
          last.sent[i].type = "DataRow"
          => \A j \in DOMAIN last.sent[i].values :
                last.sent[i].values[j] \in {WireText(c) : c \in InsertedConstants}

\* C16 (as claimed): in the pgResult of every SELECT, in both scan
\* modes, for every target list and every table content, fieldNames and
\* fieldTypes have the same length and fieldTypes[i] is the catalog type
\* token of the column fieldNames[i], so that every RowDescription field
\* carries the OID of its own column.
FieldsAligned ==
    (last.stmt.kind = "select" /\ last.err = "" /\ last.to = "Idle")
    => LET r == last.result
           def == last.def
           typeOf(name) == {def.ColumnTypes[c] :
                              c \in {x \in DOMAIN def.ColumnNames : def.ColumnNames[x] = name}}
       IN  /\ Len(r.fieldNames) = Len(r.fieldTypes)
           /\ \A i \in DOMAIN r.fieldNames : typeOf(r.fieldNames[i]) = {r.fieldTypes[i]}
           /\ \A i \in DOMAIN last.sent[1].fields :
                 {dataTypeOIDMap(ty) : ty \in typeOf(last.sent[1].fields[i].name)}
                    = {last.sent[1].fields[i].oid}

\* C17 (as claimed): whenever the write transaction of an INSERT into t
\* finds the existence marker of t, the column list it assigns values to
\* is the catalog column list of t, also when a CREATE TABLE t of another
\* session committed since the INSERT began, and every cell of t names a
\* column of t.
InsertUsesCurrentColumns ==
    (last.stmt.kind = "insert" /\ last.exists)
    => LET def == getTableDefinition(catalog, last.stmt.tbl) IN
       /\ last.def.ColumnNames = def.ColumnNames
       /\ \A k \in RowKeys(data, last.stmt.tbl) : k[4] \in Range(def.ColumnNames)
       /\ \A k \in ColKeys(data, last.stmt.tbl) : k[3] \in Range(def.ColumnNames)

\* C18 (as claimed): in the result of every row-layout SELECT of a
\* non-empty list of the table's columns, every row has len(fieldNames)
\* values and there is one row id whose stored cell of column
\* fieldNames[i] is the row's i-th value, for every i.
RowsMatchStoredCells ==
    [][ ( /\ Scanned
          /\ ~columnar
          /\ last'.stmt.kind = "select"
          /\ last'.err = ""
          /\ last'.stmt.targets # <<>> )
        => LET r == last'.result
               t == last'.def.Name
           IN  \A i \in DOMAIN r.rows :
                  /\ Len(r.rows[i]) = Len(r.fieldNames)
                  /\ \E id \in RowIds :
                        \A j \in DOMAIN r.rows[i] :
                           /\ <<t, "r", id, r.fieldNames[j]>> \in DOMAIN data
                           /\ data[<<t, "r", id, r.fieldNames[j]>>] = r.rows[i][j] ]_vars

\* A session has run the write transaction of its INSERT.
InsertCommitted ==
    \E s \in Sessions : /\ st[s] = "InsertTx" /\ st'[s] # "InsertTx"
                        /\ last'.sess = s /\ last'.stmt.kind = "insert"

\* C19: an INSERT of tuples of string and integer values, each longer
\* than the column list of the existing table (C >= 1 columns, in the
\* catalog's order by name), succeeds and writes for each tuple, under a
\* row id of its own, exactly one cell per column in each layout: the
\* columns before the last hold the values at their positions, the last
\* column holds the last value of the tuple; no other cell changes.
ClampAtLastColumn ==
    [][ ( /\ InsertCommitted
          /\ last'.stmt.kind = "insert"
          /\ last'.exists
          /\ Len(last'.def.ColumnNames) >= 1
          /\ \A j \in DOMAIN last'.stmt.lists :
                /\ Len(last'.stmt.lists[j]) > Len(last'.def.ColumnNames)
                /\ \A i \in DOMAIN last'.stmt.lists[j] :
                      last'.stmt.lists[j][i].kind \in {"int", "str"} )
        => LET t == last'.stmt.tbl
               names == last'.def.ColumnNames
               C == Len(names)
               lists == last'.stmt.lists
               value(j, i) == ValueBytes(lists[j][IF i < C THEN i ELSE Len(lists[j])])
           IN  /\ names = getTableDefinition(catalog, t).ColumnNames
               /\ last'.err = ""
               /\ last'.to = "Idle"
               /\ Tags(last'.sent) = {"INSERT ok"}
               /\ \A k \in DOMAIN data : k \in DOMAIN data' /\ data'[k] = data[k]
               /\ \E ids \in InjectiveSeqs(RowIds, Len(lists)) :
                     /\ (DOMAIN data') \ (DOMAIN data)
                          = {<<t, "r", ids[j], names[i]>> : j \in 1..Len(lists), i \in 1..C}
                            \cup {<<t, "c", names[i], ids[j]>> : j \in 1..Len(lists), i \in 1..C}
                     /\ \A j \in 1..Len(lists), i \in 1..C :
                           /\ data'[<<t, "r", ids[j], names[i]>>] = value(j, i)
                           /\ data'[<<t, "c", names[i], ids[j]>>] = value(j, i) ]_vars

\* An INSERT of a tuple of three values into a table of two columns has
\* left the third value in the last column.
ClampAtLastColumnWitness ==
    /\ last.stmt.kind = "insert"
    /\ last.err = ""
    /\ last.exists
    /\ last.def.ColumnNames = <<"a", "b">>
    /\ Len(last.stmt.lists[1]) = 3
    /\ \E id \in RowIds :
          /\ <<"t", "r", id, "b">> \in DOMAIN data
          /\ data[<<"t", "r", id, "b">>] = "13"
          /\ data[<<"t", "r", id, "a">>] = "11"

\* A session has handled a DELETE.
Deleted == nq' = nq + 1 /\ last'.stmt.kind = "delete" /\ st' = st

\* C20: an INSERT INTO t or a DELETE FROM t whose transaction finds no
\* existence marker of t changes nothing in the catalog and in the data
\* of any table, is answered with CommandComplete INSERT ok or DELETE ok
\* and ReadyForQuery, and leaves the session open and Idle.
AbsentTableNoOp ==
    [][ ( /\ (InsertCommitted /\ last'.stmt.kind = "insert") \/ Deleted
          /\ ~last'.exists )
        => /\ catalog' = catalog
           /\ data' = data
           /\ last'.sent = <<CommandComplete(IF last'.stmt.kind = "insert"
                                             THEN "INSERT ok" ELSE "DELETE ok"),
                              ReadyForQuery>>
           /\ last'.to = "Idle"
           /\ st'[last'.sess] = "Idle"
           /\ ~crashed' ]_vars

\* A DELETE FROM u, a table that was never created, has been answered
\* DELETE ok while another table held rows.
AbsentTableNoOpWitness ==
    /\ last.stmt.kind = "delete"
    /\ last.stmt.tbl = "u"
    /\ ~last.exists
    /\ <<"u">> \notin DOMAIN catalog
    /\ RowKeys(data, "t") # {}
    /\ Tags(last.sent) = {"DELETE ok"}

\* The VALUES list holds a constant that is neither a string nor an
\* integer literal.
HasUnsupported(lists) ==
    \E j \in DOMAIN lists : \E i \in DOMAIN lists[j] : lists[j][i].kind \notin {"int", "str"}

\* C21 (as claimed): every INSERT whose VALUES list holds an unsupported
\* constant, in any tuple and at any position, fails in the executor with
\* UnsupportedValue and leaves no cell of the statement in the store: the
\* data is as it was before the statement.
UnsupportedValueFails ==
    [][ (InsertCommitted /\ HasUnsupported(last'.stmt.lists))
        => /\ ErrorKind(last'.err) = "UnsupportedValue"
           /\ data' = data ]_vars

\* The columns and type tokens of a table definition, as a set.
DefColumns(def) ==
    {<<def.ColumnNames[i], def.ColumnTypes[i]>> : i \in DOMAIN def.ColumnNames}

\* The columns and type tokens the first CREATE of table t declared.
DeclaredColumns(t) ==
    UNION {{<<elts[i].Colname, TypeToken(elts[i].Colname)>> : i \in DOMAIN elts} :
              elts \in declared[t]}

\* C22: in every reachable state every column-definition key of the
\* catalog has the existence marker of its table beside it, and a table
\* with a marker has all the columns its CREATE declared; every table
\* definition a session has read while others create tables holds either
\* no column or all the columns of the table.
MarkerWithColumns ==
    /\ \A k \in DOMAIN catalog : Len(k) = 2 => <<k[1]>> \in DOMAIN catalog
    /\ \A t \in Tables :
          <<t>> \in DOMAIN catalog
          => DefColumns(getTableDefinition(catalog, t)) = DeclaredColumns(t)
    /\ \A s \in Sessions :
          tbl[s].Name # ""
          => \/ tbl[s].ColumnNames = <<>>
             \/ /\ <<tbl[s].Name>> \in DOMAIN catalog
                /\ DefColumns(tbl[s]) = DeclaredColumns(tbl[s].Name)

\* A session read the definition of t before t was created and holds no
\* column; another session read it after the CREATE and holds both
\* columns.
MarkerWithColumnsWitness ==
    \E s, x \in Sessions :
       /\ s # x
       /\ st[s] = "InsertTx" /\ tbl[s].Name = "t" /\ tbl[s].ColumnNames = <<>>
       /\ st[x] = "SelectTx" /\ tbl[x].ColumnNames = <<"a", "b">>
       /\ <<"t">> \in DOMAIN catalog

\* A session has handled a CREATE TABLE.
Created == nq' = nq + 1 /\ last'.stmt.kind = "create" /\ st' = st

\* The catalog keys of table t with their values.
CatalogOf(cat, t) == {<<k, cat[k]>> : k \in {x \in DOMAIN cat : x[1] = t}}

\* C23: under every interleaving of CREATE TABLE statements of two
\* connections, a table gets its marker and columns from one CREATE, the
\* columns being exactly those that statement declares, and once a table
\* has its marker no step changes any of its catalog keys: a second
\* CREATE with another column list adds and replaces nothing.
OneCreateWins ==
    [][ \A t \in Tables :
          IF <<t>> \in DOMAIN catalog
          THEN CatalogOf(catalog', t) = CatalogOf(catalog, t)
          ELSE \/ CatalogOf(catalog', t) = {}
               \/ /\ Created
                  /\ last'.stmt.tbl = t
                  /\ <<t>> \in DOMAIN catalog'
                  /\ DefColumns(getTableDefinition(catalog', t))
                       = {<<last'.stmt.elts[i].Colname, TypeToken(last'.stmt.elts[i].Colname)>> :
                             i \in DOMAIN last'.stmt.elts} ]_vars

\* Two sessions have sent CREATE TABLE t with different column lists one
\* after the other; the table has the columns of the first.
OneCreateWinsWitness ==
    /\ last.stmt.kind = "create"
    /\ last.stmt.tbl = "t"
    /\ last.exists
    /\ last.rival # ""
    /\ last.stmt.elts \notin declared["t"]
    /\ last.stmt.elts # <<>>
    /\ DefColumns(getTableDefinition(catalog, "t")) = DeclaredColumns("t")
    /\ \E i \in DOMAIN last.stmt.elts :
          <<"t", last.stmt.elts[i].Colname>> \notin DOMAIN catalog

\* C24 (as claimed): for every reachable state of the store and every
\* non-empty target list a session has resolved against its table, the
\* column-layout
\* SELECT returns the same fieldNames, the same fieldTypes and the same
\* rows, value for value and in the same order, as the row-layout SELECT
\* on the same state.
ScanPathsEquivalent ==
    \A s \in Sessions :
       (st[s] = "SelectTx" /\ res[s].fieldNames # <<>>)
       => LET byRow == executeSelect(data, tbl[s], res[s])
              byColumn == executeSelectColumnar(data, tbl[s], res[s])
          IN  /\ byColumn.err = byRow.err
              /\ byColumn.fieldNames = byRow.fieldNames
              /\ byColumn.fieldTypes = byRow.fieldTypes
              /\ byColumn.rows = byRow.rows

\* C25 (as claimed): no Query faults the server: the handling of every
\* Query, also one without a statement, an INSERT of values into an
\* existing table without columns and a column-layout SELECT of some of
\* the columns, ends with the session Idle after a complete response or
\* Closed, never in an index out of range, and the failure of one session
\* leaves the process and the other sessions running.
NoQueryFaultsServer ==
    /\ ~crashed
    /\ last.err # "panic"
    /\ last.stmt.kind \in QueryKinds
          => \/ last.to = "Closed" /\ st[last.sess] = "Closed"
             \/ /\ last.to = "Idle"
                /\ Len(last.sent) >= 2
                /\ last.sent[Len(last.sent)] = ReadyForQuery

====
